---- MODULE Spec2Model ----
(***************************************************************************)
(* Poker tournament manager: the tournament store and its persistence, the *)
(* control panel's clock (TVScreen timer effect and its buttons), the      *)
(* admin panel (clock inputs, player ledger), the blind-schedule editor    *)
(* and the spectator window, as a state machine.                           *)
(*                                                                         *)
(* React is modelled by what it guarantees: every handler runs against the *)
(* props of the last committed render; after every state change the tree   *)
(* is rendered again, an effect is cleaned up and run again only when one  *)
(* of its dependencies changed (or on mount), and it is cleaned up on      *)
(* unmount.  An interval callback therefore keeps the `tournament` and     *)
(* `update` it closed over until the effect runs again.                    *)
(***************************************************************************)
EXTENDS Integers, Sequences, FiniteSets, TLC

VARIABLES
  tournaments,         \* TournamentsProvider state: the list of tournament records
  activeTournamentId,  \* TournamentsProvider state: the selected id, or NULL
  activeTab,           \* PokerTournamentManagerApp state: "tv", "admin", "blinds", "ranking"
  timer,               \* the live setInterval of TVScreen: << >> or <<captured tournament>>
  deps,                \* the dependency values of TVScreen's last render, << >> when unmounted
  nextId,              \* the next fresh tournament id (uid)
  horizon,             \* how far the interval is followed: over the last `horizon` seconds
                       \* of a level (Spec, SpecStore), for `horizon` more firings (SpecScenario)
  edits,               \* schedule or ledger edits made so far in this behaviour
  last,                \* the last operation: its name, target id, argument, and the
                       \* target's record in the store just before it
  stored,              \* localStorage item 'poker_tournaments_v1'
  snapshot,            \* localStorage item 'current_tv_tournament'
  spectator,           \* the /tv window: TVRoute and TVScreenPublic state
  session,             \* the control panel page: where its mount stands
  now                  \* Date.now() as the next admitted player reads it

vars == <<tournaments, activeTournamentId, activeTab, timer, deps, nextId, horizon, edits,
          last, stored, snapshot, spectator, session, now>>

-----------------------------------------------------------------------------
(* Bounds of the exploration *)

MaxTournaments == 2
MaxTicks == 2
MaxBlinds == 3
MaxEdits == 2
MaxSpectatorTicks == 2
MaxPlayers == 2
MaxLedgerOps == 3
FieldSize == 4

-----------------------------------------------------------------------------
(* Values *)

NULL == 0

NoRecord == [id |-> NULL]

Tabs == {"tv", "admin", "blinds", "ranking"}

Min(a, b) == IF a < b THEN a ELSE b

Max(a, b) == IF a > b THEN a ELSE b

clamp(v, a, b) == Max(a, Min(b, v))

\* A blind level; a field the source leaves out reads as falsy (FALSE, 0).
Level(l, sb, bb, an, brk, dur) ==
  [level |-> l, smallBlind |-> sb, bigBlind |-> bb, ante |-> an,
   isBreak |-> brk, breakDuration |-> dur]

defaultBlindStructure ==
  << Level(1, 25, 50, 0, FALSE, 0),
     Level(2, 50, 100, 0, FALSE, 0),
     Level(3, 75, 150, 25, TRUE, 10),
     Level(4, 100, 200, 25, FALSE, 0),
     Level(5, 150, 300, 50, FALSE, 0) >>

\* The record createTournament builds; uid is a fresh id.
NewTournament(uid) ==
  [ id |-> uid,
    name |-> "Novo Torneio",
    players |-> << >>,
    blinds |-> defaultBlindStructure,
    levelDuration |-> 10,
    currentLevelIndex |-> 0,
    timeLeft |-> 10 * 60,
    isRunning |-> FALSE,
    stageWeight |-> 1,
    buyInValue |-> 100,
    buyInChips |-> 10000,
    rebuyValue |-> 100,
    rebuyChips |-> 10000,
    addonValue |-> 50,
    addonChips |-> 5000,
    adminFeePercent |-> 10,
    timeChipEnabled |-> FALSE,
    timeChipValue |-> 2000,
    extraChipEnabled |-> FALSE,
    extraChipValue |-> 20,
    extraChipAmount |-> 2000 ]

\* { ...t, ...patch }
Merge(t, patch) ==
  [f \in DOMAIN t |-> IF f \in DOMAIN patch THEN patch[f] ELSE t[f]]

\* tournaments.find(t => t.id === id), NoRecord for undefined
Find(ts, id) ==
  IF \E i \in 1..Len(ts) : ts[i].id = id
  THEN ts[CHOOSE i \in 1..Len(ts) :
            ts[i].id = id /\ \A j \in 1..(i - 1) : ts[j].id # id]
  ELSE NoRecord

\* PokerTournamentManagerApp: const active = tournaments.find(...)
Active == Find(tournaments, activeTournamentId)

\* Faulty variant of save: the id test of the map is lost.
saveEveryRecord(ts, act, patch) ==
  IF act = NoRecord THEN ts
  ELSE [i \in 1..Len(ts) |-> Merge(act, patch)]

\* PokerTournamentManagerApp.save with `active` the record the caller closed over:
\* the record with active's id is replaced by { ...active, ...patch }.
save(ts, act, patch) ==
  IF act = NoRecord THEN ts
  ELSE [i \in 1..Len(ts) |-> IF ts[i].id = act.id THEN Merge(act, patch) ELSE ts[i]]

-----------------------------------------------------------------------------
(* Rendering: which TVScreen is mounted and whether its timer effect runs *)

Mounted(ts, aid, tab) == Find(ts, aid) # NoRecord /\ tab = "tv"

DepsOf(t) == <<t.isRunning, t.timeLeft, t.currentLevelIndex>>

\* The effect's first branch: an interval that closes over the rendered tournament.
EffectTimer(t) == IF t.isRunning /\ t.timeLeft > 0 THEN <<t>> ELSE << >>

\* The effect's second branch is due: the rendered tournament is Running at 0.
Expiring(ts, aid, tab) ==
  /\ Mounted(ts, aid, tab)
  /\ Find(ts, aid).isRunning
  /\ Find(ts, aid).timeLeft = 0

\* The render that follows a state change to (ts, aid, tab).
Render(ts, aid, tab) ==
  LET t == Find(ts, aid) IN
  IF ~Mounted(ts, aid, tab)
  THEN /\ timer' = << >>
       /\ deps' = << >>
  ELSE /\ deps' = DepsOf(t)
       /\ timer' = IF deps = << >> \/ deps # DepsOf(t) THEN EffectTimer(t) ELSE timer

\* The tree is mounted and no effect is waiting to run: the handlers below act
\* between renders.
Idle ==
  /\ session.phase = "ready"
  /\ ~Expiring(tournaments, activeTournamentId, activeTab)

Op(name, id, arg) == [op |-> name, id |-> id, arg |-> arg, pre |-> Find(tournaments, id)]

\* A localStorage item: none, or a text of one of the kinds the load tells apart.
Item(kind, value) == [kind |-> kind, value |-> value]

NoItem == Item("none", << >>)

\* JSON.stringify of the collection, and of one tournament
Stringify(ts) == Item("list", ts)

StringifyRecord(t) == Item("record", t)

\* JSON.parse of an item that holds JSON
ParseItem(item) == item.value

\* The /tv window before it is opened.
Closed == [open |-> FALSE, loading |-> TRUE, tournament |-> NoRecord, tick |-> 0]

\* The control panel once its mount is over: no update of the load is queued.
Ready == [phase |-> "ready", pending |-> NoItem]

\* One state change, the render that follows it with the save effect of
\* TournamentsProvider, and the record of the operation.
Commit(ts, aid, tab, op) ==
  /\ tournaments' = ts
  /\ activeTournamentId' = aid
  /\ activeTab' = tab
  /\ Render(ts, aid, tab)
  /\ stored' = Stringify(ts)
  /\ last' = op

\* A step of the control panel that touches neither the spectator's item nor
\* the spectator window, and admits no player.
Step(ts, aid, tab, op) ==
  /\ Commit(ts, aid, tab, op)
  /\ UNCHANGED <<snapshot, spectator, session, now>>

-----------------------------------------------------------------------------
(* The patches the clock and the editors hand to save *)

\* Faulty variant of tickPatch: two seconds per firing.
tickPatchTwo(tournament) == [timeLeft |-> tournament.timeLeft - 2]

\* interval callback: update({ timeLeft: tournament.timeLeft - 1 })
tickPatch(tournament) == [timeLeft |-> tournament.timeLeft - 1]

\* Faulty variant of advancePatch: the clock is not stopped on the last level.
advancePatchKeepsRunning(tournament) ==
  [ currentLevelIndex |->
      clamp(tournament.currentLevelIndex + 1, 0, Len(tournament.blinds) - 1),
    timeLeft |-> tournament.levelDuration * 60,
    isRunning |-> tournament.isRunning ]

\* effect, advance branch
advancePatch(tournament) ==
  LET next == clamp(tournament.currentLevelIndex + 1, 0, Len(tournament.blinds) - 1) IN
  [ currentLevelIndex |-> next,
    timeLeft |-> tournament.levelDuration * 60,
    isRunning |-> IF next = Len(tournament.blinds) - 1 THEN FALSE ELSE tournament.isRunning ]

\* Faulty variant of togglePatch: starting or pausing also rewinds the level.
togglePatchRewinds(tournament) ==
  [ isRunning |-> ~tournament.isRunning,
    timeLeft |-> tournament.levelDuration * 60 ]

\* start/pause button: update({ isRunning: !tournament.isRunning })
togglePatch(tournament) == [isRunning |-> ~tournament.isRunning]

\* Faulty variant of resetPatch: the level index is left where it was.
resetPatchKeepsLevel(tournament) ==
  [ isRunning |-> FALSE,
    timeLeft |-> tournament.levelDuration * 60 ]

\* reset button
resetPatch(tournament) ==
  [ isRunning |-> FALSE,
    currentLevelIndex |-> 0,
    timeLeft |-> tournament.levelDuration * 60 ]

\* Faulty variant of jumpPatch: a jump onto the last level stops the clock,
\* as the advance does.
jumpPatchStopsAtEnd(tournament, delta) ==
  LET next == clamp(tournament.currentLevelIndex + delta, 0, Len(tournament.blinds) - 1) IN
  [ currentLevelIndex |-> next,
    timeLeft |-> tournament.levelDuration * 60,
    isRunning |-> IF next = Len(tournament.blinds) - 1 THEN FALSE ELSE tournament.isRunning ]

\* previous/next level buttons, delta = -1 or +1
jumpPatch(tournament, delta) ==
  [ currentLevelIndex |->
      clamp(tournament.currentLevelIndex + delta, 0, Len(tournament.blinds) - 1),
    timeLeft |-> tournament.levelDuration * 60 ]

\* Number(e.target.value) || d, for an integer input
OrDefault(v, d) == IF v = 0 THEN d ELSE v

\* Faulty variant of levelDurationPatch: the time left is not touched.
levelDurationPatchKeepsTime(tournament, v) ==
  [ levelDuration |-> clamp(OrDefault(v, 1), 1, 180) ]

\* level-duration input
levelDurationPatch(tournament, v) ==
  [ levelDuration |-> clamp(OrDefault(v, 1), 1, 180),
    timeLeft |-> clamp(OrDefault(v, 1), 1, 180) * 60 ]

\* current-level input
currentLevelPatch(tournament, v) ==
  [ currentLevelIndex |-> clamp(OrDefault(v, 0), 0, Len(tournament.blinds) - 1),
    timeLeft |-> tournament.levelDuration * 60 ]

\* BlindsManager.addBlindLevel; lastLevel is undefined for an empty schedule
addBlindLevel(tournament) ==
  LET n == Len(tournament.blinds)
      newLevel ==
        IF n = 0 THEN Level(1, 25 * 2, 50 * 2, 0, FALSE, 0)
        ELSE LET lastLevel == tournament.blinds[n] IN
             Level(OrDefault(lastLevel.level, 0) + 1,
                   OrDefault(lastLevel.smallBlind, 25) * 2,
                   OrDefault(lastLevel.bigBlind, 50) * 2,
                   OrDefault(lastLevel.ante, 0),
                   FALSE, 0)
  IN [blinds |-> Append(tournament.blinds, newLevel)]

\* BlindsManager.addBreak
addBreak(tournament) ==
  LET n == Len(tournament.blinds)
      lvl == IF n = 0 THEN 0 ELSE OrDefault(tournament.blinds[n].level, 0)
  IN [blinds |-> Append(tournament.blinds, Level(lvl + 1, 0, 0, 0, TRUE, 10))]

\* BlindsManager.removeBlind; index counts from 1 here, from 0 in the source
removeBlind(tournament, index) ==
  [blinds |-> [i \in 1..(Len(tournament.blinds) - 1) |->
                 IF i < index THEN tournament.blinds[i] ELSE tournament.blinds[i + 1]]]

-----------------------------------------------------------------------------
(* TournamentsProvider *)

\* Faulty variant of createTournament: the selection stays where it was.
createTournamentKeepsSelection ==
  /\ Idle
  /\ nextId <= MaxTournaments
  /\ nextId' = nextId + 1
  /\ UNCHANGED <<horizon, edits>>
  /\ Step(<<NewTournament(nextId)>> \o tournaments, activeTournamentId, activeTab,
          Op("create", nextId, 0))

\* createTournament: the new record goes first and becomes the selection
createTournament ==
  /\ Idle
  /\ nextId <= MaxTournaments
  /\ nextId' = nextId + 1
  /\ UNCHANGED <<horizon, edits>>
  /\ Step(<<NewTournament(nextId)>> \o tournaments, nextId, activeTab,
          Op("create", nextId, 0))

\* removeTournament(id); the new selection is read from the list of the render
\* the handler belongs to, the one that still holds the removed record
removeTournament ==
  /\ Idle
  /\ Active # NoRecord
  /\ \E i \in 1..Len(tournaments) :
       LET id == tournaments[i].id IN
       Step(SelectSeq(tournaments, LAMBDA t : t.id # id),
            IF activeTournamentId = id THEN tournaments[1].id ELSE activeTournamentId,
            activeTab,
            Op("remove", id, 0))
  /\ UNCHANGED <<nextId, horizon, edits>>

\* TournamentList row click: setActiveTournamentId(t.id)
selectTournament ==
  /\ Idle
  /\ Active # NoRecord
  /\ \E i \in 1..Len(tournaments) :
       Step(tournaments, tournaments[i].id, activeTab, Op("select", tournaments[i].id, 0))
  /\ UNCHANGED <<nextId, horizon, edits>>

\* tab buttons: setActiveTab
setActiveTab ==
  /\ Idle
  /\ Active # NoRecord
  /\ \E tab \in Tabs :
       Step(tournaments, activeTournamentId, tab, Op("tab", activeTournamentId, 0))
  /\ UNCHANGED <<nextId, horizon, edits>>

(* TournamentsProvider: the mount of a session *)

\* What a step of the mount records: the item the load effect read.
SessionOp(name, raw) == [op |-> name, id |-> NULL, arg |-> raw, pre |-> NoRecord]

\* JSON.parse succeeds on the item
Parses(raw) == raw.kind \in {"list", "null", "object"}

\* The load effect reaches setTournaments(parsed): the item is there and is JSON.
Queues(raw) == raw # NoItem /\ Parses(raw)

\* The page is opened, or opened again: state starts from useState([]) and
\* useState(null); localStorage is what the last session left.
reload ==
  /\ session.phase # "boot"
  /\ tournaments' = << >>
  /\ activeTournamentId' = NULL
  /\ activeTab' = "tv"
  /\ timer' = << >>
  /\ deps' = << >>
  /\ session' = [phase |-> "boot", pending |-> NoItem]
  /\ last' = SessionOp("reload", stored)
  /\ UNCHANGED <<nextId, horizon, edits, stored, snapshot, spectator, now>>

\* The effects of the first render, in order: the load effect reads the item and
\* queues setTournaments(parsed) (and the selection, if parsed.length); the save
\* effect stores the list of this render, the empty one.
mountEffects ==
  /\ session.phase = "boot"
  /\ stored' = Stringify(tournaments)
  /\ session' = IF Queues(stored) THEN [phase |-> "mounted", pending |-> stored] ELSE Ready
  /\ last' = SessionOp(IF Queues(stored) THEN "load" ELSE "restore", stored)
  /\ UNCHANGED <<tournaments, activeTournamentId, activeTab, timer, deps, nextId,
                 horizon, edits, snapshot, spectator, now>>

\* The render with the queued updates applied.  A list is rendered and saved;
\* anything else makes PokerTournamentManagerApp throw at tournaments.find,
\* and without an error boundary the tree is unmounted.
commitLoad ==
  /\ session.phase = "mounted"
  /\ LET raw == session.pending
         parsed == ParseItem(raw)
     IN IF raw.kind = "list"
        THEN /\ Commit(parsed, IF Len(parsed) > 0 THEN parsed[1].id ELSE NULL, activeTab,
                       SessionOp("restore", raw))
             /\ session' = Ready
        ELSE /\ session' = [phase |-> "crashed", pending |-> raw]
             /\ last' = SessionOp("restore", raw)
             /\ UNCHANGED <<tournaments, activeTournamentId, activeTab, timer, deps, stored>>
  /\ UNCHANGED <<nextId, horizon, edits, snapshot, spectator, now>>

-----------------------------------------------------------------------------
(* TVScreen: the timer effect *)

\* The interval fires: the callback saves through the `tournament` it closed over.
intervalCallback ==
  /\ timer # << >>
  /\ LET tournament == timer[1] IN
     Step(save(tournaments, tournament, tickPatch(tournament)),
          activeTournamentId, activeTab, Op("tick", tournament.id, 0))
  /\ UNCHANGED <<nextId, edits>>

tick ==
  /\ timer # << >>
  /\ timer[1].timeLeft <= horizon
  /\ intervalCallback
  /\ UNCHANGED horizon

\* The same firing, counted: horizon is the number of firings left.
tickCounted ==
  /\ horizon > 0
  /\ intervalCallback
  /\ horizon' = horizon - 1

\* The effect runs for a render with isRunning and timeLeft === 0.
advance ==
  /\ Expiring(tournaments, activeTournamentId, activeTab)
  /\ Step(save(tournaments, Active, advancePatch(Active)),
          activeTournamentId, activeTab, Op("advance", Active.id, 0))
  /\ UNCHANGED <<nextId, horizon, edits>>

(* TVScreen: the buttons *)

TVShown == Idle /\ Mounted(tournaments, activeTournamentId, activeTab)

startPause ==
  /\ TVShown
  /\ Step(save(tournaments, Active, togglePatch(Active)),
          activeTournamentId, activeTab, Op("toggle", Active.id, 0))
  /\ UNCHANGED <<nextId, horizon, edits>>

reset ==
  /\ TVShown
  /\ Step(save(tournaments, Active, resetPatch(Active)),
          activeTournamentId, activeTab, Op("reset", Active.id, 0))
  /\ UNCHANGED <<nextId, horizon, edits>>

jumpLevel ==
  /\ TVShown
  /\ \E delta \in {-1, 1} :
       Step(save(tournaments, Active, jumpPatch(Active, delta)),
            activeTournamentId, activeTab, Op("jump", Active.id, delta))
  /\ UNCHANGED <<nextId, horizon, edits>>

\* openTVWindow: the item is written only if window.open returned a window;
\* the window (re)loads /tv, so TVRoute starts from its initial state.
openTVWindow ==
  /\ TVShown
  /\ \E opened \in BOOLEAN :
       /\ Commit(tournaments, activeTournamentId, activeTab,
                 Op("openTV", Active.id, IF opened THEN 1 ELSE 0))
       /\ snapshot' = IF opened THEN StringifyRecord(Active) ELSE snapshot
       /\ spectator' = IF opened THEN [Closed EXCEPT !.open = TRUE] ELSE spectator
  /\ UNCHANGED <<nextId, horizon, edits, session, now>>

-----------------------------------------------------------------------------
(* The spectator window: TVRoute and TVScreenPublic *)

PanelVars ==
  <<tournaments, activeTournamentId, activeTab, timer, deps, nextId, horizon, edits,
    stored, session, now>>

\* What a step of the spectator records; it has no target in the store.
SpectatorOp(name) == [op |-> name, id |-> NULL, arg |-> 0, pre |-> NoRecord]

\* TVRoute effect on mount: read the item once, start the poll, loading is over
tvRouteMount ==
  /\ spectator.open
  /\ spectator.loading
  /\ spectator' = [spectator EXCEPT
                     !.loading = FALSE,
                     !.tournament = IF snapshot # NoItem THEN ParseItem(snapshot) ELSE @]
  /\ last' = SpectatorOp("tvMount")
  /\ UNCHANGED snapshot
  /\ UNCHANGED PanelVars

\* Faulty variant of tvRoutePoll: the item is removed once it is read.
tvRoutePollConsumes ==
  /\ spectator.open
  /\ ~spectator.loading
  /\ spectator' = [spectator EXCEPT
                     !.tournament = IF snapshot # NoItem THEN ParseItem(snapshot) ELSE @]
  /\ last' = SpectatorOp("tvPoll")
  /\ snapshot' = NoItem
  /\ UNCHANGED PanelVars

\* TVRoute: the 2-second poll
tvRoutePoll ==
  /\ spectator.open
  /\ ~spectator.loading
  /\ spectator' = [spectator EXCEPT
                     !.tournament = IF snapshot # NoItem THEN ParseItem(snapshot) ELSE @]
  /\ last' = SpectatorOp("tvPoll")
  /\ UNCHANGED snapshot
  /\ UNCHANGED PanelVars

\* TVScreenPublic: the 1-second setTick that only forces a re-render
tvPublicTick ==
  /\ spectator.open
  /\ ~spectator.loading
  /\ spectator.tournament # NoRecord
  /\ spectator.tick < MaxSpectatorTicks
  /\ spectator' = [spectator EXCEPT !.tick = @ + 1]
  /\ last' = SpectatorOp("tvTick")
  /\ UNCHANGED snapshot
  /\ UNCHANGED PanelVars

-----------------------------------------------------------------------------
(* AdminPanel: the two inputs that write the clock *)

AdminShown == Idle /\ Active # NoRecord /\ activeTab = "admin"

LevelDurationInputs == {0, 200}

CurrentLevelInputs == {-1, 1, 7}

setLevelDuration ==
  /\ AdminShown
  /\ \E v \in LevelDurationInputs :
       Step(save(tournaments, Active, levelDurationPatch(Active, v)),
            activeTournamentId, activeTab, Op("duration", Active.id, v))
  /\ UNCHANGED <<nextId, horizon, edits>>

setCurrentLevel ==
  /\ AdminShown
  /\ \E v \in CurrentLevelInputs :
       Step(save(tournaments, Active, currentLevelPatch(Active, v)),
            activeTournamentId, activeTab, Op("level", Active.id, v))
  /\ UNCHANGED <<nextId, horizon, edits>>

-----------------------------------------------------------------------------
(* AdminPanel: the player ledger *)

\* position: null; a position the code assigns is a count, never negative
NullPosition == -1

\* A name as typed: a sequence of characters, " " the whitespace one.
RECURSIVE TrimStart(_)
TrimStart(s) ==
  IF s = << >> THEN s
  ELSE IF Head(s) = " " THEN TrimStart(Tail(s)) ELSE s

RECURSIVE TrimEnd(_)
TrimEnd(s) ==
  IF s = << >> THEN s
  ELSE IF s[Len(s)] = " " THEN TrimEnd(SubSeq(s, 1, Len(s) - 1)) ELSE s

\* String.prototype.trim
Trim(s) == TrimEnd(TrimStart(s))

\* Faulty variant of Rejected: the name is not trimmed before the test.
RejectedUntrimmed(name) == name = << >>

\* addPlayer: if (!newPlayerName.trim()) return
Rejected(name) == Trim(name) = << >>

\* Faulty variant of isTimeChipEligible: the level is not looked at.
isTimeChipEligibleAnyLevel(tournament) == tournament.timeChipEnabled

\* addPlayer: time chip for an admission on the first two levels
isTimeChipEligible(tournament) ==
  tournament.timeChipEnabled /\ tournament.currentLevelIndex < 2

\* Faulty variant of NewPlayer: the buy-in is not counted as an action.
NewPlayerNoAction(tournament, name, time) ==
  [ id |-> time,
    name |-> Trim(name),
    actions |-> 0,
    rebuys |-> 0,
    addons |-> 0,
    chips |-> tournament.buyInChips
                + (IF isTimeChipEligible(tournament) THEN tournament.timeChipValue ELSE 0),
    position |-> NullPosition,
    prize |-> 0,
    active |-> TRUE,
    hasTimeChip |-> isTimeChipEligible(tournament),
    hasExtraChip |-> FALSE ]

\* addPlayer: the record p; time is Date.now()
NewPlayer(tournament, name, time) ==
  [ id |-> time,
    name |-> Trim(name),
    actions |-> 1,
    rebuys |-> 0,
    addons |-> 0,
    chips |-> tournament.buyInChips
                + (IF isTimeChipEligible(tournament) THEN tournament.timeChipValue ELSE 0),
    position |-> NullPosition,
    prize |-> 0,
    active |-> TRUE,
    hasTimeChip |-> isTimeChipEligible(tournament),
    hasExtraChip |-> FALSE ]

\* addPlayer: save({ players: [...tournament.players, p] })
addPlayer(tournament, name, time) ==
  [players |-> Append(tournament.players, NewPlayer(tournament, name, time))]

\* AdminPanel.updatePlayer
updatePlayer(tournament, id, patch) ==
  [players |-> [i \in 1..Len(tournament.players) |->
                  IF tournament.players[i].id = id
                  THEN Merge(tournament.players[i], patch)
                  ELSE tournament.players[i]]]

\* AdminPanel.removePlayer
removePlayer(tournament, id) ==
  [players |-> SelectSeq(tournament.players, LAMBDA p : p.id # id)]

\* Faulty variant of rebuyPatch: the chips of the rebuy are not handed out.
rebuyPatchNoChips(tournament, p) ==
  [ rebuys |-> p.rebuys + 1,
    actions |-> p.actions + 1 ]

\* Faulty variant of rebuyPatch: a rebuy puts the player back in play.
rebuyPatchReenters(tournament, p) ==
  [ rebuys |-> p.rebuys + 1,
    actions |-> p.actions + 1,
    chips |-> p.chips + tournament.rebuyChips,
    active |-> TRUE ]

\* +Rebuy button
rebuyPatch(tournament, p) ==
  [ rebuys |-> p.rebuys + 1,
    actions |-> p.actions + 1,
    chips |-> p.chips + tournament.rebuyChips ]

\* +Addon button
addonPatch(tournament, p) ==
  [ addons |-> p.addons + 1,
    chips |-> p.chips + tournament.addonChips ]

\* +Extra Chip button
extraChipPatch(tournament, p) ==
  [ hasExtraChip |-> TRUE,
    chips |-> p.chips + tournament.extraChipAmount ]

\* chips input: { chips: Number(e.target.value) }
chipsPatch(v) == [chips |-> v]

\* Faulty variant of eliminatePatch: the player going out is not counted.
eliminatePatchCountsRest(tournament) ==
  [ active |-> FALSE,
    position |-> Len(SelectSeq(tournament.players, LAMBDA x : x.active)) - 1 ]

\* Eliminar button
eliminatePatch(tournament) ==
  [ active |-> FALSE,
    position |-> Len(SelectSeq(tournament.players, LAMBDA x : x.active)) ]

NameInputs == {<< >>, <<" ">>, <<" ", "A">>}

ChipInputs == {0, 500}

\* An admission that is not rejected takes one of the edits followed here.
addPlayerStep ==
  /\ AdminShown
  /\ \E name \in NameInputs :
       IF Rejected(name)
       THEN /\ Commit(tournaments, activeTournamentId, activeTab,
                      Op("addPlayer", Active.id, name))
            /\ UNCHANGED <<now, edits>>
       ELSE /\ edits < MaxLedgerOps
            /\ Len(Active.players) < MaxPlayers
            /\ Commit(save(tournaments, Active, addPlayer(Active, name, now)),
                      activeTournamentId, activeTab, Op("addPlayer", Active.id, name))
            /\ now' = now + 1
            /\ edits' = edits + 1
  /\ UNCHANGED <<nextId, horizon, snapshot, spectator, session>>

\* A button or input of a player's row: the patch goes through updatePlayer.
PlayerStep(name, p, patch) ==
  /\ edits < MaxLedgerOps
  /\ edits' = edits + 1
  /\ Step(save(tournaments, Active, updatePlayer(Active, p.id, patch)),
          activeTournamentId, activeTab, Op(name, Active.id, p.id))
  /\ UNCHANGED <<nextId, horizon>>

rebuyStep ==
  /\ AdminShown
  /\ \E i \in 1..Len(Active.players) :
       PlayerStep("rebuy", Active.players[i], rebuyPatch(Active, Active.players[i]))

addonStep ==
  /\ AdminShown
  /\ \E i \in 1..Len(Active.players) :
       PlayerStep("addon", Active.players[i], addonPatch(Active, Active.players[i]))

\* Faulty variant of extraChipStep: the button is rendered for every player.
extraChipStepAlwaysShown ==
  /\ AdminShown
  /\ Active.extraChipEnabled
  /\ \E i \in 1..Len(Active.players) :
       PlayerStep("extraChip", Active.players[i], extraChipPatch(Active, Active.players[i]))

\* the button is rendered only if extraChipEnabled && !p.hasExtraChip
extraChipStep ==
  /\ AdminShown
  /\ Active.extraChipEnabled
  /\ \E i \in 1..Len(Active.players) :
       /\ ~Active.players[i].hasExtraChip
       /\ PlayerStep("extraChip", Active.players[i], extraChipPatch(Active, Active.players[i]))

setChipsStep ==
  /\ AdminShown
  /\ \E i \in 1..Len(Active.players) : \E v \in ChipInputs :
       PlayerStep("chips", Active.players[i], chipsPatch(v))

eliminateStep ==
  /\ AdminShown
  /\ \E i \in 1..Len(Active.players) :
       PlayerStep("eliminate", Active.players[i], eliminatePatch(Active))

removePlayerStep ==
  /\ AdminShown
  /\ edits < MaxLedgerOps
  /\ edits' = edits + 1
  /\ \E i \in 1..Len(Active.players) :
       Step(save(tournaments, Active, removePlayer(Active, Active.players[i].id)),
            activeTournamentId, activeTab, Op("removePlayer", Active.id, Active.players[i].id))
  /\ UNCHANGED <<nextId, horizon>>

\* Time Chip checkbox: save({ timeChipEnabled: e.target.checked })
setTimeChipEnabled ==
  /\ AdminShown
  /\ Step(save(tournaments, Active, [timeChipEnabled |-> ~Active.timeChipEnabled]),
          activeTournamentId, activeTab, Op("timeChip", Active.id, 0))
  /\ UNCHANGED <<nextId, horizon, edits>>

\* Extra Chip checkbox: save({ extraChipEnabled: e.target.checked })
setExtraChipEnabled ==
  /\ AdminShown
  /\ Step(save(tournaments, Active, [extraChipEnabled |-> ~Active.extraChipEnabled]),
          activeTournamentId, activeTab, Op("extraChipEnabled", Active.id, 0))
  /\ UNCHANGED <<nextId, horizon, edits>>

\* Buy-in value input: save({ buyInValue: Number(e.target.value) || 0 })
BuyInInputs == {0, 101, 102}

setBuyInValue ==
  /\ AdminShown
  /\ \E v \in BuyInInputs :
       Step(save(tournaments, Active, [buyInValue |-> OrDefault(v, 0)]),
            activeTournamentId, activeTab, Op("buyIn", Active.id, v))
  /\ UNCHANGED <<nextId, horizon, edits>>

\* Admin fee input: save({ adminFeePercent: Number(e.target.value) || 0 })
AdminFeeInputs == {0, 25}

setAdminFeePercent ==
  /\ AdminShown
  /\ \E v \in AdminFeeInputs :
       Step(save(tournaments, Active, [adminFeePercent |-> OrDefault(v, 0)]),
            activeTournamentId, activeTab, Op("fee", Active.id, v))
  /\ UNCHANGED <<nextId, horizon, edits>>

-----------------------------------------------------------------------------
(* TVScreen and TVScreenPublic: the prize pool *)

\* Money is counted in hundredths, so that total * (1 - adminFeePercent / 100)
\* stays in the integers: the value below is 100 times the one the source
\* computes in floating point.

\* Faulty variant of afterFee: a player who is out no longer counts.
afterFeeActiveOnly(tournament, p) ==
  LET actionsTotal == p.actions * tournament.buyInValue
      addonsTotal == p.addons * tournament.addonValue
      extraChipTotal == IF p.hasExtraChip THEN tournament.extraChipValue ELSE 0
      total == actionsTotal + addonsTotal + extraChipTotal
  IN IF p.active THEN total * (100 - tournament.adminFeePercent) ELSE 0

\* Faulty variant of afterFee: the buy-in is counted once, not per action.
afterFeeOneBuyIn(tournament, p) ==
  LET actionsTotal == tournament.buyInValue
      addonsTotal == p.addons * tournament.addonValue
      extraChipTotal == IF p.hasExtraChip THEN tournament.extraChipValue ELSE 0
      total == actionsTotal + addonsTotal + extraChipTotal
  IN total * (100 - tournament.adminFeePercent)

\* The reducer's contribution of one player
afterFee(tournament, p) ==
  LET actionsTotal == p.actions * tournament.buyInValue
      addonsTotal == p.addons * tournament.addonValue
      extraChipTotal == IF p.hasExtraChip THEN tournament.extraChipValue ELSE 0
      total == actionsTotal + addonsTotal + extraChipTotal
  IN total * (100 - tournament.adminFeePercent)

\* tournament.players.reduce((s, p) => s + afterFee, 0) over the first k players
RECURSIVE reducePrizePool(_, _)
reducePrizePool(tournament, k) ==
  IF k = 0 THEN 0
  ELSE reducePrizePool(tournament, k - 1) + afterFee(tournament, tournament.players[k])

totalPrizePool(tournament) == reducePrizePool(tournament, Len(tournament.players))

-----------------------------------------------------------------------------
(* RankingViewer *)

\* Stage weight input: save({ stageWeight: Number(e.target.value) || 1 })
StageWeightInputs == {0, 2, -1}

setStageWeight ==
  /\ AdminShown
  /\ \E v \in StageWeightInputs :
       Step(save(tournaments, Active, [stageWeight |-> OrDefault(v, 1)]),
            activeTournamentId, activeTab, Op("stageWeight", Active.id, v))
  /\ UNCHANGED <<nextId, horizon, edits>>

\* A score is the number w * sqrt(num / den), kept as its three integers so
\* that scores are compared exactly; the guard's return value is ZeroScore.
ZeroScore == [w |-> 0, num |-> 0, den |-> 1]

Sign(x) == IF x > 0 THEN 1 ELSE IF x < 0 THEN -1 ELSE 0

ScoreSign(s) == IF s.num = 0 THEN 0 ELSE Sign(s.w)

\* the square of s is below the square of t (both den > 0)
SquareLess(s, t) == s.w * s.w * s.num * t.den < t.w * t.w * t.num * s.den

ScoreLess(s, t) ==
  IF ScoreSign(s) # ScoreSign(t) THEN ScoreSign(s) < ScoreSign(t)
  ELSE IF ScoreSign(s) = 1 THEN SquareLess(s, t)
  ELSE IF ScoreSign(s) = -1 THEN SquareLess(t, s)
  ELSE FALSE

\* Faulty variant of calculateRanking: only the entries are guarded.
calculateRankingEntriesGuardOnly(actions, position, stageWeight) ==
  IF actions <= 0 THEN ZeroScore
  ELSE [w |-> stageWeight, num |-> actions * 100, den |-> position]

\* if (position <= 0 || actions <= 0) return 0;
\* return Math.pow(((actions / position) * 100), 0.5) * stageWeight;
calculateRanking(actions, position, stageWeight) ==
  IF position <= 0 \/ actions <= 0 THEN ZeroScore
  ELSE [w |-> stageWeight, num |-> actions * 100, den |-> position]

\* Faulty variant of effectivePosition: a player still in play is placed
\* behind the players still in play only.
effectivePositionAmongActive(tournament, p) ==
  IF p.position = NullPosition
  THEN Cardinality({i \in 1..Len(tournament.players) : tournament.players[i].active})
  ELSE p.position

\* p.position ?? (p.active ? tournament.players.length : tournament.players.length)
effectivePosition(tournament, p) ==
  IF p.position = NullPosition THEN Len(tournament.players) ELSE p.position

\* { ...p, score, finalPosition: position }
scoredRow(tournament, p) ==
  [f \in DOMAIN p \cup {"score", "finalPosition"} |->
     IF f = "score"
     THEN calculateRanking(p.actions, effectivePosition(tournament, p),
                           tournament.stageWeight)
     ELSE IF f = "finalPosition" THEN effectivePosition(tournament, p)
     ELSE p[f]]

\* the comparator (a, b) => b.score - a.score, by its sign
compareScores(a, b) ==
  IF ScoreLess(a.score, b.score) THEN 1
  ELSE IF ScoreLess(b.score, a.score) THEN -1
  ELSE 0

\* Array.prototype.sort is stable: a row goes in front of the first row the
\* comparator puts it before, behind every row it ties with.
RECURSIVE insertRow(_, _)
insertRow(sorted, row) ==
  IF sorted = << >> THEN <<row>>
  ELSE IF compareScores(row, Head(sorted)) < 0 THEN <<row>> \o sorted
  ELSE <<Head(sorted)>> \o insertRow(Tail(sorted), row)

RECURSIVE sortRows(_, _)
sortRows(rows, k) ==
  IF k = 0 THEN << >> ELSE insertRow(sortRows(rows, k - 1), rows[k])

\* Faulty variant of withScores: the rows are left in the order of the list.
withScoresUnsorted(tournament) ==
  [i \in 1..Len(tournament.players) |-> scoredRow(tournament, tournament.players[i])]

\* tournament.players.map(...).sort((a,b) => b.score - a.score)
withScores(tournament) ==
  sortRows([i \in 1..Len(tournament.players) |->
              scoredRow(tournament, tournament.players[i])],
           Len(tournament.players))

\* Faulty variant of playersAfterRanking: the list itself is sorted.
playersAfterRankingInPlace(tournament) ==
  [i \in 1..Len(tournament.players) |->
     [f \in DOMAIN tournament.players[i] |-> withScores(tournament)[i][f]]]

\* map returns a new array of new objects and sort orders that array:
\* tournament.players is what it was.
playersAfterRanking(tournament) == tournament.players

RankingShown == Idle /\ Active # NoRecord /\ activeTab = "ranking"

\* A render of RankingViewer: no state is set, nothing is committed or saved.
rankingRender ==
  /\ RankingShown
  /\ tournaments' =
       [i \in 1..Len(tournaments) |->
          IF tournaments[i].id = activeTournamentId
          THEN [tournaments[i] EXCEPT !.players = playersAfterRanking(tournaments[i])]
          ELSE tournaments[i]]
  /\ last' = Op("ranking", activeTournamentId, 0)
  /\ UNCHANGED <<activeTournamentId, activeTab, timer, deps, nextId, horizon,
                 edits, stored, snapshot, spectator, session, now>>

-----------------------------------------------------------------------------
(* BlindsManager *)

BlindsShown == Idle /\ Active # NoRecord /\ activeTab = "blinds"

addBlindLevelStep ==
  /\ BlindsShown
  /\ edits < MaxEdits
  /\ Len(Active.blinds) < MaxBlinds
  /\ Step(save(tournaments, Active, addBlindLevel(Active)),
          activeTournamentId, activeTab, Op("addBlind", Active.id, 0))
  /\ edits' = edits + 1
  /\ UNCHANGED <<nextId, horizon>>

addBreakStep ==
  /\ BlindsShown
  /\ edits < MaxEdits
  /\ Len(Active.blinds) < MaxBlinds
  /\ Step(save(tournaments, Active, addBreak(Active)),
          activeTournamentId, activeTab, Op("addBreak", Active.id, 0))
  /\ edits' = edits + 1
  /\ UNCHANGED <<nextId, horizon>>

removeBlindStep ==
  /\ BlindsShown
  /\ edits < MaxEdits
  /\ \E index \in 1..Len(Active.blinds) :
       Step(save(tournaments, Active, removeBlind(Active, index)),
            activeTournamentId, activeTab, Op("removeBlind", Active.id, index))
  /\ edits' = edits + 1
  /\ UNCHANGED <<nextId, horizon>>

-----------------------------------------------------------------------------
(* Initial states: the store as the load effect restores it, then the mount *)

\* A persisted tournament: a created one whose schedule was cut to its first two
\* levels and whose clock has run down to tl seconds.
Stored(uid, tl, run) ==
  [NewTournament(uid) EXCEPT !.blinds = SubSeq(defaultBlindStructure, 1, 2),
                             !.timeLeft = tl, !.isRunning = run]

StoredTimes == {1, 2}

StoredOne(uid) == {Stored(uid, tl, run) : tl \in StoredTimes, run \in BOOLEAN}

\* Ids are handed out in order; the collection holds ids first..(nextId - 1).
RECURSIVE StoredFrom(_, _)
StoredFrom(first, n) ==
  IF n = 0 THEN {<< >>}
  ELSE {<<a>> \o rest : a \in StoredOne(first), rest \in StoredFrom(first + 1, n - 1)}

\* What the load effect hands to setTournaments, followed by the first render.
Mount(parsed, fresh) ==
  /\ tournaments = parsed
  /\ activeTournamentId = IF Len(parsed) > 0 THEN parsed[1].id ELSE NULL
  /\ activeTab = "tv"
  /\ deps = IF Len(parsed) > 0 THEN DepsOf(parsed[1]) ELSE << >>
  /\ timer = IF Len(parsed) > 0 THEN EffectTimer(parsed[1]) ELSE << >>
  /\ nextId = fresh
  /\ edits = 0
  /\ last = [op |-> "load", id |-> NULL, arg |-> 0, pre |-> NoRecord]
  /\ stored = Stringify(parsed)
  /\ snapshot = NoItem
  /\ spectator = Closed
  /\ session = Ready
  /\ now = 1

\* The control panel over one tournament: the one stored, or the one created.
Init ==
  /\ \/ Mount(<< >>, MaxTournaments)
     \/ \E a \in StoredOne(MaxTournaments) : Mount(<<a>>, MaxTournaments + 1)
  /\ horizon = MaxTicks

Next ==
  \/ createTournament
  \/ removeTournament
  \/ selectTournament
  \/ setActiveTab
  \/ tick
  \/ advance
  \/ startPause
  \/ reset
  \/ jumpLevel
  \/ setLevelDuration
  \/ setCurrentLevel
  \/ addBlindLevelStep
  \/ addBreakStep
  \/ removeBlindStep

Spec == Init /\ [][Next]_vars

\* The store with several tournaments and the clock, without the editors.
InitStore ==
  /\ \E n \in 0..MaxTournaments : \E parsed \in StoredFrom(1, n) : Mount(parsed, n + 1)
  /\ horizon = MaxTicks

NextStore ==
  \/ createTournament
  \/ removeTournament
  \/ selectTournament
  \/ setActiveTab
  \/ tick
  \/ advance
  \/ startPause
  \/ reset
  \/ jumpLevel

SpecStore == InitStore /\ [][NextStore]_vars

\* The scenario of a two-level schedule left running for a whole level:
\* levelDuration 10, index 0, timeLeft 600, Running, and no operator.
ScenarioTournament ==
  [NewTournament(1) EXCEPT !.blinds = SubSeq(defaultBlindStructure, 1, 2),
                           !.isRunning = TRUE]

InitScenario ==
  /\ Mount(<<ScenarioTournament>>, 2)
  /\ horizon = ScenarioTournament.levelDuration * 60

NextScenario ==
  \/ tickCounted
  \/ advance

SpecScenario == InitScenario /\ [][NextScenario]_vars

\* A tournament left Running on the TV tab with no operator, on any schedule
\* the blinds manager can leave behind (removeBlind has no floor) and any of
\* its levels.
RunTournament(n, k) ==
  [NewTournament(1) EXCEPT !.blinds = SubSeq(defaultBlindStructure, 1, n),
                           !.currentLevelIndex = k,
                           !.isRunning = TRUE]

InitRun ==
  /\ \E n \in 0..MaxBlinds : \E k \in 0..Max(n - 1, 0) :
       Mount(<<RunTournament(n, k)>>, 2)
  /\ horizon = NewTournament(1).levelDuration * 60

NextRun ==
  \/ tick
  \/ advance

\* setInterval fires every second while the interval is live, and the effect
\* runs after every render.
SpecRun ==
  /\ InitRun
  /\ [][NextRun]_vars
  /\ WF_vars(tick)
  /\ WF_vars(advance)

\* The admin panel of a created tournament: the ledger and what admission
\* reads.  The tournament has been created and the Admin tab opened.
InitLedger ==
  /\ tournaments = <<NewTournament(1)>>
  /\ activeTournamentId = 1
  /\ activeTab = "admin"
  /\ deps = << >>
  /\ timer = << >>
  /\ nextId = 2
  /\ horizon = MaxTicks
  /\ edits = 0
  /\ last = [op |-> "tab", id |-> 1, arg |-> 0, pre |-> NewTournament(1)]
  /\ stored = Stringify(<<NewTournament(1)>>)
  /\ snapshot = NoItem
  /\ spectator = Closed
  /\ session = Ready
  /\ now = 1

NextLedger ==
  \/ setCurrentLevel
  \/ setTimeChipEnabled
  \/ setExtraChipEnabled
  \/ addPlayerStep
  \/ rebuyStep
  \/ addonStep
  \/ extraChipStep
  \/ setChipsStep
  \/ eliminateStep
  \/ removePlayerStep

SpecLedger == InitLedger /\ [][NextLedger]_vars

\* A field of FieldSize admitted players, the first `out` of them eliminated
\* one after another in the order of admission.
Field(tournament, out) ==
  [i \in 1..FieldSize |->
     IF i <= out
     THEN [NewPlayer(tournament, <<"A">>, i) EXCEPT !.active = FALSE,
                                                   !.position = FieldSize - i + 1]
     ELSE NewPlayer(tournament, <<"A">>, i)]

FieldTournament(out) ==
  [NewTournament(1) EXCEPT !.players = Field(NewTournament(1), out)]

\* The admin panel over a full field: nobody is out yet, or only two remain.
InitField ==
  /\ \E out \in {0, FieldSize - 2} :
       /\ tournaments = <<FieldTournament(out)>>
       /\ stored = Stringify(<<FieldTournament(out)>>)
       /\ last = [op |-> "tab", id |-> 1, arg |-> 0, pre |-> FieldTournament(out)]
  /\ activeTournamentId = 1
  /\ activeTab = "admin"
  /\ deps = << >>
  /\ timer = << >>
  /\ nextId = 2
  /\ horizon = MaxTicks
  /\ edits = 0
  /\ snapshot = NoItem
  /\ spectator = Closed
  /\ session = Ready
  /\ now = FieldSize + 1

NextField ==
  \/ setActiveTab
  \/ rebuyStep
  \/ eliminateStep

SpecField == InitField /\ [][NextField]_vars

\* The same field with the two money inputs the prize pool reads.
NextPool ==
  \/ rebuyStep
  \/ setBuyInValue
  \/ setAdminFeePercent

SpecPool == InitField /\ [][NextPool]_vars

\* The same field with the stage weight input and the ranking tab.
NextRanking ==
  \/ setActiveTab
  \/ rebuyStep
  \/ eliminateStep
  \/ setStageWeight
  \/ rankingRender

SpecRanking == InitField /\ [][NextRanking]_vars

\* The control panel's clock with the spectator window beside it.
NextSpectator ==
  \/ createTournament
  \/ tick
  \/ advance
  \/ startPause
  \/ reset
  \/ jumpLevel
  \/ openTVWindow
  \/ tvRouteMount
  \/ tvRoutePoll
  \/ tvPublicTick

SpecSpectator == Init /\ [][NextSpectator]_vars

\* The items a session can find under the collection key: none, a text that is
\* not JSON, JSON null, a JSON object, or a collection an earlier session saved.
Malformed == {Item("text", << >>), Item("null", << >>), Item("object", << >>)}

StoredItems ==
  {NoItem} \cup Malformed
    \cup {Stringify(parsed) : parsed \in UNION {StoredFrom(1, n) : n \in 0..MaxTournaments}}

\* A page that has rendered once and not yet run its effects.
InitSession ==
  /\ \E raw \in StoredItems :
       /\ stored = raw
       /\ nextId = IF raw.kind = "list" THEN Len(raw.value) + 1 ELSE 1
  /\ tournaments = << >>
  /\ activeTournamentId = NULL
  /\ activeTab = "tv"
  /\ timer = << >>
  /\ deps = << >>
  /\ horizon = MaxTicks
  /\ edits = 0
  /\ last = SessionOp("open", NoItem)
  /\ snapshot = NoItem
  /\ spectator = Closed
  /\ session = [phase |-> "boot", pending |-> NoItem]
  /\ now = 1

NextSession ==
  \/ reload
  \/ mountEffects
  \/ commitLoad
  \/ createTournament
  \/ removeTournament
  \/ selectTournament
  \/ startPause

SpecSession == InitSession /\ [][NextSession]_vars

-----------------------------------------------------------------------------
(* Properties *)

\* The target of the last operation as the store holds it now.
Post == Find(tournaments, last.id)

ClockStep == last.op \in {"tick", "advance"} /\ last.pre # NoRecord

\* C1: for every tournament, in every reachable state,
\* 0 <= currentLevelIndex < blinds.length and timeLeft >= 0.
C1_IndexInRange ==
  \A i \in 1..Len(tournaments) :
    /\ 0 <= tournaments[i].currentLevelIndex
    /\ tournaments[i].currentLevelIndex < Len(tournaments[i].blinds)
    /\ tournaments[i].timeLeft >= 0

C3_TickToZeroThenAdvance ==
  ClockStep =>
    /\ (last.op = "tick" /\ last.pre.isRunning /\ last.pre.timeLeft = 1 =>
          /\ Post.timeLeft = 0
          /\ Post.isRunning
          /\ Post.currentLevelIndex = last.pre.currentLevelIndex)
    /\ (last.pre.isRunning /\ last.pre.timeLeft = 0 =>
          /\ last.op = "advance"
          /\ Post.currentLevelIndex =
               Min(last.pre.currentLevelIndex + 1, Len(last.pre.blinds) - 1)
          /\ Post.timeLeft = last.pre.levelDuration * 60)

\* C4: the advance sets currentLevelIndex to min(currentLevelIndex + 1,
\* blinds.length - 1) and timeLeft to levelDuration*60, and forces isRunning to
\* false exactly when the new index is the last index of the schedule.
C4_AdvanceEffect ==
  last.op = "advance" =>
    LET lastIndex == Len(last.pre.blinds) - 1
        next == Min(last.pre.currentLevelIndex + 1, lastIndex)
    IN Post = [last.pre EXCEPT
                 !.currentLevelIndex = next,
                 !.timeLeft = last.pre.levelDuration * 60,
                 !.isRunning = IF next = lastIndex THEN FALSE ELSE last.pre.isRunning]

\* C5: two levels, levelDuration 10, index 0, timeLeft 600, Running: once the
\* interval has fired 600 times and the expiry is resolved, the tournament is at
\* index 1 with timeLeft 600 and stopped; until then it is Running on level 0.
C5_ScenarioEndsStoppedOnLastLevel ==
  LET t == tournaments[1] IN
  IF horizon = 0 /\ Idle
  THEN t = [ScenarioTournament EXCEPT !.currentLevelIndex = 1,
                                      !.timeLeft = 600,
                                      !.isRunning = FALSE]
  ELSE t = [ScenarioTournament EXCEPT !.timeLeft = horizon]

\* C5: the 600 firings have happened and the clock has stopped.
C5_Witness ==
  /\ horizon = 0
  /\ last.op = "advance"
  /\ ~tournaments[1].isRunning

\* C6: every Running tournament with timeLeft > 0 has a live interval that will
\* take the next second off it, whichever tab is shown and whichever tournament
\* is selected.
C6_RunningClockIsTicking ==
  \A i \in 1..Len(tournaments) :
    tournaments[i].isRunning /\ tournaments[i].timeLeft > 0 =>
      /\ timer # << >>
      /\ timer[1].id = tournaments[i].id
      /\ timer[1].timeLeft = tournaments[i].timeLeft

\* C7: the start/pause button turns a Running tournament into a Stopped one and
\* a Stopped one into a Running one, and changes no other field.
C7_StartPauseChangesOnlyIsRunning ==
  last.op = "toggle" =>
    Post = [last.pre EXCEPT !.isRunning = ~last.pre.isRunning]

\* C7: a tournament was paused in the middle of a level.
C7_Witness ==
  /\ last.op = "toggle"
  /\ last.pre.isRunning
  /\ ~Post.isRunning
  /\ Post.timeLeft < Post.levelDuration * 60
  /\ Post.timeLeft > 0

\* C8: reset yields isRunning = false, currentLevelIndex = 0 and
\* timeLeft = levelDuration*60 and changes no other field.
C8_ResetEffect ==
  last.op = "reset" =>
    Post = [last.pre EXCEPT !.isRunning = FALSE,
                            !.currentLevelIndex = 0,
                            !.timeLeft = last.pre.levelDuration * 60]

\* C8: a Running tournament beyond the first level was reset.
C8_Witness ==
  /\ last.op = "reset"
  /\ last.pre.isRunning
  /\ last.pre.currentLevelIndex > 0
  /\ Post.currentLevelIndex = 0
  /\ ~Post.isRunning

\* clamp as the claim reads it: capped at hi, then raised to lo.
Clamped(v, lo, hi) ==
  LET capped == IF v > hi THEN hi ELSE v IN
  IF capped < lo THEN lo ELSE capped

\* C9: a level jump by delta sets currentLevelIndex to
\* clamp(currentLevelIndex + delta, 0, blinds.length - 1) and timeLeft to
\* levelDuration*60 and changes nothing else, isRunning included.
C9_JumpEffect ==
  last.op = "jump" =>
    /\ last.arg \in {-1, 1}
    /\ Post = [last.pre EXCEPT
                 !.currentLevelIndex =
                   Clamped(last.pre.currentLevelIndex + last.arg, 0, Len(last.pre.blinds) - 1),
                 !.timeLeft = last.pre.levelDuration * 60]

\* C9: a Running tournament jumped forward onto its last level and kept running.
C9_Witness ==
  /\ last.op = "jump"
  /\ last.arg = 1
  /\ last.pre.currentLevelIndex < Post.currentLevelIndex
  /\ Post.currentLevelIndex = Len(Post.blinds) - 1
  /\ Post.isRunning

\* C10: every tournament's blind schedule has at least one entry.
C10_ScheduleNeverEmpty ==
  \A i \in 1..Len(tournaments) : Len(tournaments[i].blinds) >= 1

\* The fields the patch of an operation names.
Named(op) ==
  LET t == NewTournament(1) IN
  CASE op = "tick" -> DOMAIN tickPatch(t)
    [] op = "advance" -> DOMAIN advancePatch(t)
    [] op = "toggle" -> DOMAIN togglePatch(t)
    [] op = "reset" -> DOMAIN resetPatch(t)
    [] op = "jump" -> DOMAIN jumpPatch(t, 1)
    [] op = "duration" -> DOMAIN levelDurationPatch(t, 1)
    [] op = "level" -> DOMAIN currentLevelPatch(t, 1)
    [] op \in {"addBlind", "addBreak", "removeBlind"} -> DOMAIN addBlindLevel(t)
    [] OTHER -> {}

PatchOps ==
  {"tick", "advance", "toggle", "reset", "jump", "duration", "level",
   "addBlind", "addBreak", "removeBlind"}

\* C11: a step that applies a patch to a tournament keeps the collection's
\* length and order, leaves every other tournament as the store held it just
\* before, and on the patched tournament changes no field the patch does not
\* name; this holds for timer callbacks and operator actions in any order.
C11_PatchChangesOnlyNamedFields ==
  [][last'.op \in PatchOps =>
       /\ Len(tournaments') = Len(tournaments)
       /\ \A i \in 1..Len(tournaments) :
            IF tournaments[i].id = last'.id
            THEN \A f \in (DOMAIN tournaments[i]) \ Named(last'.op) :
                   tournaments'[i][f] = tournaments[i][f]
            ELSE tournaments'[i] = tournaments[i]]_vars

\* C11: the interval of a tournament that is no longer selected has fired
\* while another tournament is on screen.
C11_Witness ==
  /\ last.op = "tick"
  /\ last.id # activeTournamentId
  /\ Len(tournaments) = 2
  /\ Active # NoRecord
  /\ Post.timeLeft = last.pre.timeLeft - 1

SpectatorOps == {"tvMount", "tvPoll", "tvTick"}

\* C12: no step of the spectator (initial load, 2-second poll, per-second
\* re-render) writes the persisted collection, the spectator snapshot, or the
\* control panel's in-memory store.
C12_SpectatorWritesNothing ==
  [][last'.op \in SpectatorOps =>
       UNCHANGED <<stored, snapshot, tournaments, activeTournamentId, activeTab,
                   timer, deps>>]_vars

\* C12: a poll has replaced the spectator's copy by a newer snapshot.
C12_Witness ==
  /\ last.op = "tvPoll"
  /\ snapshot # NoItem
  /\ spectator.tournament = ParseItem(snapshot)
  /\ spectator.tick > 0

\* C13: every update to the displayed tournament is published to the spectator
\* snapshot: whenever the snapshot's tournament is in the store, the snapshot
\* holds the store's record of it (so one poll brings the spectator up to date).
C13_SnapshotFollowsStore ==
  snapshot # NoItem /\ Find(tournaments, ParseItem(snapshot).id) # NoRecord =>
    ParseItem(snapshot) = Find(tournaments, ParseItem(snapshot).id)

\* C14: a malformed item under the collection key (not JSON, or JSON that is not
\* a list: null, an object) is treated as no saved state: the session ends its
\* mount with an empty collection and no selection, and never fails.
C14_MalformedIsNoSavedState ==
  /\ session.phase # "crashed"
  /\ (last.op = "restore" /\ last.arg \in Malformed =>
        /\ session.phase = "ready"
        /\ tournaments = << >>
        /\ activeTournamentId = NULL)

\* C15: once the save step has run the persisted collection is the in-memory
\* one; a fresh session restores exactly the collection it found, same records
\* in the same order; and while it does so the persisted collection is never
\* overwritten by an empty one.
C15_PersistRestoreRoundTrip ==
  /\ (session.phase = "ready" => stored = Stringify(tournaments))
  /\ (last.op = "restore" /\ last.arg.kind = "list" =>
        tournaments = ParseItem(last.arg))
  /\ (session.phase = "mounted" /\ session.pending.kind = "list" =>
        stored = session.pending)

\* C16: a newly created tournament has the default blind schedule, no players,
\* currentLevelIndex = 0, timeLeft = levelDuration*60 and isRunning = false; it
\* is added to the collection under an id of its own and becomes the selection;
\* the tournaments that were there are unchanged and keep their order.
C16_CreateEffect ==
  [][nextId' # nextId =>
       LET t == tournaments'[1] IN
       /\ Len(tournaments') = Len(tournaments) + 1
       /\ t.blinds = defaultBlindStructure
       /\ t.players = << >>
       /\ t.currentLevelIndex = 0
       /\ t.timeLeft = t.levelDuration * 60
       /\ ~t.isRunning
       /\ activeTournamentId' = t.id
       /\ \A i \in 1..Len(tournaments) :
            /\ tournaments[i].id # t.id
            /\ tournaments'[i + 1] = tournaments[i]]_vars

\* C16: a tournament was created beside a Running one and took the selection.
C16_Witness ==
  /\ last.op = "create"
  /\ Len(tournaments) = 2
  /\ activeTournamentId = last.id
  /\ tournaments[1].id = last.id
  /\ tournaments[2].isRunning

\* A name that is empty or whitespace-only.
Blank(name) == \A i \in 1..Len(name) : name[i] = " "

\* C17: an admission with an empty or whitespace-only name is rejected: the
\* players list and every other field of the tournament are as before the call.
C17_BlankNameRejected ==
  last.op = "addPlayer" /\ Blank(last.arg) => Post = last.pre

\* C17: a whitespace-only name was refused on a tournament that has a player.
C17_Witness ==
  /\ last.op = "addPlayer"
  /\ last.arg = <<" ">>
  /\ Len(Post.players) >= 1

\* C18: an admission with a non-blank name appends exactly one player with
\* actions (entries) = 1, rebuys = 0, addons = 0, active, position = null,
\* prize = 0, hasExtraChip = false, and chips = buyInChips + timeChipValue with
\* hasTimeChip = true when the time chip (bonus entry chip) is enabled and
\* currentLevelIndex < 2 at admission, otherwise chips = buyInChips with
\* hasTimeChip = false; the players already there are unchanged.
C18_AdmitEffect ==
  last.op = "addPlayer" /\ ~Blank(last.arg) =>
    LET pre == last.pre
        n == Len(pre.players)
        bonus == pre.timeChipEnabled /\ pre.currentLevelIndex < 2
    IN /\ Len(Post.players) = n + 1
       /\ SubSeq(Post.players, 1, n) = pre.players
       /\ LET p == Post.players[n + 1] IN
          /\ p.actions = 1
          /\ p.rebuys = 0
          /\ p.addons = 0
          /\ p.active
          /\ p.position = NullPosition
          /\ p.prize = 0
          /\ ~p.hasExtraChip
          /\ p.hasTimeChip = bonus
          /\ p.chips = IF bonus THEN pre.buyInChips + pre.timeChipValue
                                ELSE pre.buyInChips

\* C18: with the time chip enabled, a second player was admitted on a level
\* past the first two and got the plain buy-in stack.
C18_Witness ==
  /\ last.op = "addPlayer"
  /\ ~Blank(last.arg)
  /\ last.pre.timeChipEnabled
  /\ last.pre.currentLevelIndex >= 2
  /\ Len(Post.players) = 2
  /\ ~Post.players[2].hasTimeChip
  /\ Post.players[1].hasTimeChip

\* C19: a rebuy on any player, active or eliminated, adds exactly 1 to that
\* player's actions (entries), 1 to rebuys and rebuyChips to chips, and changes
\* no other field of that player and no other player.
C19_RebuyEffect ==
  last.op = "rebuy" =>
    LET pre == last.pre IN
    /\ \E i \in 1..Len(pre.players) : pre.players[i].id = last.arg
    /\ Post.players =
         [i \in 1..Len(pre.players) |->
            IF pre.players[i].id = last.arg
            THEN [pre.players[i] EXCEPT !.actions = @ + 1,
                                        !.rebuys = @ + 1,
                                        !.chips = @ + pre.rebuyChips]
            ELSE pre.players[i]]

\* C19: an eliminated player bought back in.
C19_Witness ==
  /\ last.op = "rebuy"
  /\ \E i \in 1..Len(Post.players) :
       /\ Post.players[i].id = last.arg
       /\ ~Post.players[i].active
       /\ Post.players[i].rebuys = 1
       /\ Post.players[i].chips = last.pre.players[i].chips + last.pre.rebuyChips

\* C20: for every player of every tournament, in every reachable state,
\* actions (entries) = 1 + rebuys.
C20_EntriesAreOnePlusRebuys ==
  \A i \in 1..Len(tournaments) :
    \A j \in 1..Len(tournaments[i].players) :
      tournaments[i].players[j].actions = 1 + tournaments[i].players[j].rebuys

\* C20: a player has bought back in and then had the chips edited.
C20_Witness ==
  \E i \in 1..Len(tournaments) :
    \E j \in 1..Len(tournaments[i].players) :
      /\ tournaments[i].players[j].rebuys = 1
      /\ tournaments[i].players[j].actions = 2
      /\ tournaments[i].players[j].chips = 500

\* The last operation had a tournament as its target and the tournament is
\* still in the store.
OnTournament == last.pre # NoRecord /\ Post # NoRecord

\* C21: the extra chip takes effect at most once per player: a purchase finds
\* hasExtraChip = false, sets it to true and adds extraChipAmount to chips and
\* changes nothing else of the player; no operation turns hasExtraChip of a
\* player back to false.
C21_ExtraChipOnce ==
  OnTournament =>
    /\ (last.op = "extraChip" =>
          \E i \in 1..Len(last.pre.players) :
            /\ last.pre.players[i].id = last.arg
            /\ ~last.pre.players[i].hasExtraChip
            /\ Post.players[i] =
                 [last.pre.players[i] EXCEPT !.hasExtraChip = TRUE,
                                             !.chips = @ + last.pre.extraChipAmount])
    /\ \A i \in 1..Len(last.pre.players) : \A j \in 1..Len(Post.players) :
          last.pre.players[i].id = Post.players[j].id /\ last.pre.players[i].hasExtraChip
            => Post.players[j].hasExtraChip

\* C21: a player who holds the extra chip bought back in and still holds it,
\* with the chips of the buy-in, one extra chip and one rebuy.
C21_Witness ==
  /\ last.op = "rebuy"
  /\ \E i \in 1..Len(Post.players) :
       /\ Post.players[i].id = last.arg
       /\ last.pre.players[i].hasExtraChip
       /\ Post.players[i].hasExtraChip
       /\ Post.players[i].chips =
            Post.buyInChips + Post.extraChipAmount + Post.rebuyChips

\* The players of a list that are still in (active), or out.
CountActive(players) == Cardinality({i \in 1..Len(players) : players[i].active})

CountOut(players) == Cardinality({i \in 1..Len(players) : ~players[i].active})

\* C22: an elimination sets active = false and position = the number of
\* players that were active just before it and changes nothing else; for a
\* player who was active that is the size of the field less the players
\* already out, so a field of N goes out at positions N, N-1, ...
C22_EliminateEffect ==
  last.op = "eliminate" =>
    \E i \in 1..Len(last.pre.players) :
      /\ last.pre.players[i].id = last.arg
      /\ Post.players =
           [j \in 1..Len(last.pre.players) |->
              IF j = i
              THEN [last.pre.players[j] EXCEPT
                      !.active = FALSE,
                      !.position = CountActive(last.pre.players)]
              ELSE last.pre.players[j]]
      /\ (last.pre.players[i].active =>
            Post.players[i].position =
              Len(last.pre.players) - CountOut(last.pre.players))

\* C22: out of a full field the first player went out at position N and the
\* next one, just now, at N - 1.
C22_Witness ==
  /\ last.op = "eliminate"
  /\ edits = 2
  /\ CountOut(Post.players) = 2
  /\ \E i, j \in 1..Len(Post.players) :
       /\ Post.players[i].position = FieldSize
       /\ Post.players[j].id = last.arg
       /\ Post.players[j].position = FieldSize - 1

\* C23: a position is set exactly once: once a player has a non-null position
\* no later operation changes it, a repeated elimination of that player
\* included.
C23_PositionSetOnce ==
  OnTournament =>
    \A i \in 1..Len(last.pre.players) : \A j \in 1..Len(Post.players) :
      last.pre.players[i].id = Post.players[j].id
        /\ last.pre.players[i].position # NullPosition
        => Post.players[j].position = last.pre.players[i].position

\* Sums over a list of players.
RECURSIVE SumActions(_)
SumActions(players) ==
  IF players = << >> THEN 0 ELSE Head(players).actions + SumActions(Tail(players))

RECURSIVE SumAddons(_)
SumAddons(players) ==
  IF players = << >> THEN 0 ELSE Head(players).addons + SumAddons(Tail(players))

CountExtraChips(players) ==
  Cardinality({i \in 1..Len(players) : players[i].hasExtraChip})

\* C24: the prize pool is the sum over all players, active or eliminated, of
\* (actions*buyInValue + addons*addonValue + extraChipValue if hasExtraChip)
\* * (1 - adminFeePercent/100), here in hundredths; an elimination leaves it
\* unchanged; buyInValue 100, fee 10, one player with actions 2, addons 1,
\* addonValue 50 and no extra chip gives 225.
C24_PrizePool ==
  /\ \A i \in 1..Len(tournaments) :
       LET t == tournaments[i] IN
       /\ totalPrizePool(t) =
            (SumActions(t.players) * t.buyInValue
               + SumAddons(t.players) * t.addonValue
               + CountExtraChips(t.players) * t.extraChipValue)
              * (100 - t.adminFeePercent)
       /\ (/\ t.buyInValue = 100
           /\ t.adminFeePercent = 10
           /\ t.addonValue = 50
           /\ Len(t.players) = 1
           /\ t.players[1].actions = 2
           /\ t.players[1].addons = 1
           /\ ~t.players[1].hasExtraChip
           => totalPrizePool(t) = 225 * 100)
  /\ (last.op = "eliminate" => totalPrizePool(Post) = totalPrizePool(last.pre))

\* C24: a player with a rebuy went out and the pool still holds both buy-ins.
C24_Witness ==
  /\ last.op = "eliminate"
  /\ Len(Post.players) = 1
  /\ ~Post.players[1].active
  /\ Post.players[1].actions = 2
  /\ totalPrizePool(Post) = 2 * Post.buyInValue * (100 - Post.adminFeePercent)

Ranked == last.op = "ranking" /\ last.pre # NoRecord

\* The player a row of the ranking was made from.
PlayerOf(row) == [f \in DOMAIN row \ {"score", "finalPosition"} |-> row[f]]

\* The score s is the whole number n.
ScoreIs(s, n) == ScoreSign(s) = 1 /\ s.w * s.w * s.num = n * n * s.den

\* The score s is 7.07 to two decimals.
ScoreAboutSevenPointZeroSeven(s) ==
  /\ ScoreSign(s) = 1
  /\ 707 * 707 * s.den <= s.w * s.w * s.num * 10000
  /\ s.w * s.w * s.num * 10000 < 708 * 708 * s.den

C27_EffectivePosition ==
  Ranked =>
    LET t == last.pre
        rows == withScores(t)
    IN \A j \in 1..Len(rows) :
         /\ rows[j].position = NullPosition <=> rows[j].active
         /\ rows[j].finalPosition =
              (IF rows[j].position = NullPosition THEN Len(t.players)
               ELSE rows[j].position)
         /\ rows[j].score =
              calculateRanking(rows[j].actions,
                               IF rows[j].position = NullPosition THEN Len(t.players)
                               ELSE rows[j].position,
                               t.stageWeight)

\* A ranking of a field with players out and players in play, fewer in play
\* than in the field.
C27_Witness ==
  /\ Ranked
  /\ CountActive(last.pre.players) > 0
  /\ CountActive(last.pre.players) < Len(last.pre.players)
  /\ \E j \in 1..Len(last.pre.players) :
       /\ withScores(last.pre)[j].active
       /\ withScores(last.pre)[j].finalPosition = Len(last.pre.players)
  /\ \E j \in 1..Len(last.pre.players) :
       /\ ~withScores(last.pre)[j].active
       /\ withScores(last.pre)[j].finalPosition = withScores(last.pre)[j].position

ScoreArguments == -1..2

\* C28: calculateRanking returns exactly 0 when the entries are at most 0 or
\* the position is at most 0, for every other argument and every stage
\* weight, and so does every row of a ranking.
C28_ZeroScore ==
  /\ \A a \in ScoreArguments : \A p \in ScoreArguments :
       \A w \in StageWeightInputs \cup {1} :
         (a <= 0 \/ p <= 0) => calculateRanking(a, p, w) = ZeroScore
  /\ Ranked =>
       \A j \in 1..Len(last.pre.players) :
         (withScores(last.pre)[j].actions <= 0
            \/ withScores(last.pre)[j].finalPosition <= 0)
         => withScores(last.pre)[j].score = ZeroScore

\* A ranking with a player at position 0 and entries above 0.
C28_Witness ==
  /\ Ranked
  /\ \E j \in 1..Len(last.pre.players) :
       /\ withScores(last.pre)[j].finalPosition = 0
       /\ withScores(last.pre)[j].actions > 0
       /\ withScores(last.pre)[j].score = ZeroScore

\* C29: a render of the ranking changes no tournament (the players list, its
\* order, every field of every player, every other field) and nothing saved.
C29_RankingReadOnly ==
  [][last'.op = "ranking" => tournaments' = tournaments /\ stored' = stored]_vars

\* A ranking whose order is not the order of the players list, with the
\* list as it was.
C29_Witness ==
  /\ Ranked
  /\ Post = last.pre
  /\ \E j \in 1..Len(Post.players) : PlayerOf(withScores(Post)[j]) # Post.players[j]
  /\ Post.stageWeight = 2

\* C30: after removeTournament the selection is null or the id of a
\* tournament of the list, it is not the removed id, and it is not null when
\* the selected tournament was removed and the list is not empty.
C30_SelectionAfterRemove ==
  [][last'.op = "remove" =>
       /\ activeTournamentId' = NULL
            \/ Find(tournaments', activeTournamentId') # NoRecord
       /\ activeTournamentId' # last'.id
       /\ (activeTournamentId = last'.id /\ tournaments' # << >>)
            => activeTournamentId' # NULL]_vars

\* C31: in every tournament the positions of the players that have one are
\* at least 1 and no two players have the same position.
C31_PositionsDistinct ==
  \A n \in 1..Len(tournaments) :
    LET players == tournaments[n].players IN
    \A i \in 1..Len(players) :
      players[i].position # NullPosition =>
        /\ players[i].position >= 1
        /\ \A j \in 1..Len(players) :
             (j # i /\ players[j].position # NullPosition)
               => players[j].position # players[i].position

\* C32: a timer step (tick or level advance) changes no tournament other than
\* the one selected when it runs.
C32_TimerWritesActiveOnly ==
  [][last'.op \in {"tick", "advance"} =>
       /\ Len(tournaments') = Len(tournaments)
       /\ \A i \in 1..Len(tournaments) :
            tournaments[i].id # activeTournamentId
              => tournaments'[i] = tournaments[i]]_vars

\* C33: a tournament left Running with its timer firing and no operator
\* eventually is stopped on the last level of its schedule.
C33_ClockEventuallyStops ==
  <>(/\ ~tournaments[1].isRunning
     /\ tournaments[1].currentLevelIndex = Len(tournaments[1].blinds) - 1)

\* C34: every tournament has timeLeft <= levelDuration*60; creation, reset,
\* level jump, level advance and a level-duration edit leave timeLeft equal to
\* the tournament's levelDuration*60, and a tick does not raise timeLeft.
C34_TimeLeftWithinLevel ==
  /\ \A i \in 1..Len(tournaments) :
       tournaments[i].timeLeft <= tournaments[i].levelDuration * 60
  /\ (last.op \in {"create", "reset", "jump", "advance", "duration"} /\ Post # NoRecord)
       => Post.timeLeft = Post.levelDuration * 60
  /\ (last.op = "tick" /\ OnTournament) => Post.timeLeft <= last.pre.timeLeft

\* A level-duration edit that shortens the level below the time that was left.
C34_Witness ==
  /\ last.op = "duration"
  /\ OnTournament
  /\ last.pre.timeLeft > Post.levelDuration * 60
  /\ Post.timeLeft = Post.levelDuration * 60

\* C35: every player of every tournament is out of play (active false)
\* exactly when the player has a position, and a player that was out of play
\* before an operation is out of play after it.
C35_ActiveIffNoPosition ==
  /\ \A n \in 1..Len(tournaments) : \A i \in 1..Len(tournaments[n].players) :
       tournaments[n].players[i].active
         <=> tournaments[n].players[i].position = NullPosition
  /\ OnTournament =>
       \A i \in 1..Len(last.pre.players) : \A j \in 1..Len(Post.players) :
         (Post.players[j].id = last.pre.players[i].id /\ ~last.pre.players[i].active)
           => ~Post.players[j].active

\* The Eliminar button pressed on a player who was already out: the player
\* is still out and has a position.
C35_Witness ==
  /\ last.op = "eliminate"
  /\ OnTournament
  /\ \E i \in 1..Len(last.pre.players) : \E j \in 1..Len(Post.players) :
       /\ last.pre.players[i].id = last.arg
       /\ Post.players[j].id = last.arg
       /\ ~last.pre.players[i].active
       /\ ~Post.players[j].active
       /\ Post.players[j].position # NullPosition

====
